---- MODULE Spec2Model ----
(***************************************************************************)
(* Model of src/src/etcd.rs: the lease-backed etcd helper (put, touch,     *)
(* put_or_touch) and the self-renewing service registration loop           *)
(* (keep_service_register).                                                *)
(*                                                                         *)
(* Byte strings (keys, values, tags, service names) are sequences of       *)
(* one-character strings, so that format! is concatenation and split_once  *)
(* is a real split.  Every store RPC is one step; an RPC may fail.  Time   *)
(* is counted in whole seconds, the unit of lease TTLs and of              *)
(* Duration::from_secs.                                                    *)
(***************************************************************************)
EXTENDS Integers, Sequences, FiniteSets, TLC

\* ------------------------------------------------------------------ bounds
\* largest ttl (seconds) a registration or a direct call is given
MaxTtl == 3
\* largest ttl (seconds) a direct call is given
MaxCallTtl == 1
\* direct calls a caller makes
MaxCalls == 2
\* RPC failures injected
MaxFail == 1
\* lease ids the store hands out before lease_grant is cut off
MaxLeases == 4
\* writes and deletes the external actor performs
MaxExt == 1
\* completed ticks are counted up to this number
TickCap == 2
\* consecutive missed reconciliations of a record are counted up to this number
MissCap == 2
\* ttl (seconds) of the lease other clients hold when direct calls begin
InitTtl == 2
\* ttl (seconds) a second service registers with
WebTtl == 2

Min(a, b) == IF a < b THEN a ELSE b

\* ----------------------------------------------------------------- strings
EmptyStr == << >>

\* "traefik/http/services/"
SERVICES_PREFIX ==
    <<"t","r","a","e","f","i","k","/","h","t","t","p","/",
      "s","e","r","v","i","c","e","s","/">>
\* "/loadbalancer/servers/"
SERVERS_INFIX ==
    <<"/","l","o","a","d","b","a","l","a","n","c","e","r","/",
      "s","e","r","v","e","r","s","/">>
\* "/url"
URL_SUFFIX == <<"/","u","r","l">>
\* "traefik/http/routers/"
ROUTERS_PREFIX ==
    <<"t","r","a","e","f","i","k","/","h","t","t","p","/",
      "r","o","u","t","e","r","s","/">>
\* "/service"
SERVICE_SUFFIX == <<"/","s","e","r","v","i","c","e">>

\* (a url key that names the service once)
UrlKey_Once(s) == SERVICES_PREFIX \o s \o SERVERS_INFIX \o URL_SUFFIX

\* format!("traefik/http/services/{}/loadbalancer/servers/{}/url", s, s)
UrlKey(s) == SERVICES_PREFIX \o s \o SERVERS_INFIX \o s \o URL_SUFFIX

\* format!("traefik/http/routers/{}/service", s)
RouterKey(s) == ROUTERS_PREFIX \o s \o SERVICE_SUFFIX

\* index of the first '=' of s, 0 when there is none
FirstEq(s) ==
    IF \E i \in 1..Len(s) : s[i] = "="
    THEN CHOOSE i \in 1..Len(s) : s[i] = "=" /\ \A j \in 1..(i-1) : s[j] # "="
    ELSE 0

\* (a split at the last '=')
split_at_last(tag) ==
    LET eqs == {i \in 1..Len(tag) : tag[i] = "="}
    IN  IF eqs = {} THEN <<EmptyStr, EmptyStr>>
        ELSE LET i == CHOOSE i \in eqs : \A j \in eqs : j <= i
             IN  <<SubSeq(tag, 1, i-1), SubSeq(tag, i+1, Len(tag))>>

\* tag.split_once('=').unwrap_or_default()
split_once(tag) ==
    LET i == FirstEq(tag)
    IN  IF i = 0 THEN <<EmptyStr, EmptyStr>>
        ELSE <<SubSeq(tag, 1, i-1), SubSeq(tag, i+1, Len(tag))>>

\* ------------------------------------------------------------------ inputs
\* service names, endpoint urls and tag lists registrations are started with
NameApi == <<"a","p","i">>
Names == {NameApi}
UrlApi == <<"h","t","t","p",":","/","/","x">>
\* "env=prod"
TagEnvProd == <<"e","n","v","=","p","r","o","d">>
\* "a=b=c"
TagABC == <<"a","=","b","=","c">>
\* "a=b"
TagAB == <<"a","=","b">>
\* "noequals"
TagNoEq == <<"n","o","e","q","u","a","l","s">>
TagLists == { <<TagEnvProd>>, <<TagABC, TagAB>>, <<TagNoEq>> }
Tags == UNION { {tl[i] : i \in 1..Len(tl)} : tl \in TagLists }
MaxRecs == 2 + Len(CHOOSE tl \in TagLists : \A o \in TagLists : Len(o) <= Len(tl))

\* a second service, registered beside "api"
NameWeb == <<"w","e","b">>
UrlWeb == <<"h","t","t","p",":","/","/","y">>
\* "env=dev"
TagEnvDev == <<"e","n","v","=","d","e","v">>
RegWeb == [name |-> NameWeb, url |-> UrlWeb, tags |-> <<TagEnvDev>>, ttl |-> WebTtl]

KeyEnv == <<"e","n","v">>
KeyA == <<"a">>
\* keys and values of direct calls and of the external actor
CallKeys == {KeyA}
CallVals == { <<"v">>, <<"w">> }
ExtVal == <<"w">>
\* the value direct calls write to a store other clients have filled
OpsVal == <<"v">>
\* "traefik/"
PrefixTraefik == <<"t","r","a","e","f","i","k","/">>
\* prefixes delete_with_prefix is called with: two keys, one key, no key in range
Prefixes == {PrefixTraefik, KeyA, <<"z">>}
\* keys the external actor writes beside a direct caller, and beside the loop
ExtCallKeys == {KeyA, KeyEnv}
ExtLoopKeys == {UrlKey(NameApi)}

Keys ==
    {UrlKey(n) : n \in Names} \cup {RouterKey(n) : n \in Names}
      \cup {split_once(t)[1] : t \in Tags} \cup CallKeys \cup ExtCallKeys

\* the same, and the keys of the second service
PairKeys ==
    Keys \cup {UrlKey(NameWeb), RouterKey(NameWeb), split_once(TagEnvDev)[1]}

\* keys the store may hold before the first direct call
OpsKeys == {KeyA, UrlKey(NameApi), RouterKey(NameApi)}

Procs == {"caller", "loop"}

\* ------------------------------------------------------------------- state
VARIABLES
    store,       \* key -> [present, val, lease]: the store's key-value pairs
    leases,      \* lease id -> [live, ttl, remaining]
    nextLease,   \* next lease id the store grants
    pc,          \* per task: where it is suspended
    op,          \* per task: the public operation it is in
    arg,         \* per task: [key, value, ttl] of the call in progress
    prev,        \* per task: lease id of the record the lookup found
    granted,     \* per task: lease id put binds the key to (0: none)
    ret,         \* per task: result of the last call ("none", "ok", "err")
    reg,         \* the registration the loop was started with
    interval,    \* period of keep_alive_interval, seconds
    timer,       \* seconds until the next tick is due
    rec,         \* index of the record the loop is reconciling
    \* history
    owner,       \* key -> who wrote its current value
    fails,       \* RPCs that have failed (up to MaxFail)
    calls,       \* direct calls made
    extOps,      \* operations the external actor has performed
    ticks,       \* completed ticks (up to TickCap)
    snap,        \* the store at the end of the first tick
    attempted,   \* records put_or_touch was called on in the current tick
    failedRecs,  \* records whose put_or_touch failed in the current tick
    misses,      \* record -> reconciliations since its lease was last renewed
    renewed,     \* record -> the loop has created or renewed its lease
    tick0,       \* the store as the latest tick found it when it began
    elapsed,     \* seconds since the loop's process exited
    pre,         \* caller: the call's key in the store when the call began
    dirty,       \* caller: another actor changed the call's key since the call began
    puts,        \* caller: put RPCs of the current call
    grants,      \* caller: lease_grant RPCs of the current call
    last,        \* caller: the previous completed call
    idem,        \* caller: the current call follows a successful call on its key,
                 \* undisturbed; and the key as that call left it
    out,         \* caller: what the last get or delete_with_prefix returned
    rpcs         \* caller: the RPCs of the current call, in order, as answered

storeVars == <<store, leases, nextLease>>
taskVars == <<pc, op, arg, prev, granted, ret>>
loopVars == <<reg, interval, timer, rec>>
loopHist == <<ticks, snap, attempted, failedRecs, misses, renewed, tick0, elapsed>>
callHist == <<pre, dirty, puts, grants, last, idem, out, rpcs>>
vars == <<storeVars, taskVars, loopVars, owner, fails, calls, extOps, loopHist, callHist>>

NoKV == [present |-> FALSE, val |-> EmptyStr, lease |-> 0]
NoLease == [live |-> FALSE, ttl |-> 0, remaining |-> 0]
NoArg == [key |-> EmptyStr, value |-> EmptyStr, ttl |-> 0]
NoReg == [name |-> EmptyStr, url |-> EmptyStr, tags |-> << >>, ttl |-> 0]
NoCall == [op |-> "none", arg |-> NoArg, ret |-> "none", pre |-> NoKV, kv |-> NoKV]
NoTick == [on |-> FALSE, ext |-> 0, absent |-> {}, lease |-> 0]
NoOut == [kv |-> NoKV, n |-> 0]
NoIdem == [on |-> FALSE, pre |-> NoKV, kv |-> NoKV]
LeaseIds == 1..MaxLeases

\* nothing has run yet; the store, over the keys ks, is empty
InitOn(ks) ==
    /\ store = [k \in ks |-> NoKV]
    /\ leases = [l \in LeaseIds |-> NoLease]
    /\ nextLease = 1
    /\ pc = [p \in Procs |-> "idle"]
    /\ op = [p \in Procs |-> "none"]
    /\ arg = [p \in Procs |-> NoArg]
    /\ prev = [p \in Procs |-> 0]
    /\ granted = [p \in Procs |-> 0]
    /\ ret = [p \in Procs |-> "none"]
    /\ reg = NoReg
    /\ interval = 0
    /\ timer = 0
    /\ rec = 0
    /\ owner = [k \in ks |-> "none"]
    /\ fails = 0
    /\ calls = 0
    /\ extOps = 0
    /\ ticks = 0
    /\ snap = [k \in ks |-> NoKV]
    /\ attempted = {}
    /\ failedRecs = {}
    /\ misses = [i \in 1..MaxRecs |-> 0]
    /\ renewed = [i \in 1..MaxRecs |-> FALSE]
    /\ tick0 = NoTick
    /\ elapsed = 0
    /\ pre = NoKV
    /\ dirty = FALSE
    /\ puts = 0
    /\ grants = 0
    /\ last = NoCall
    /\ idem = NoIdem
    /\ out = NoOut
    /\ rpcs = << >>

Init == InitOn(Keys)

\* ------------------------------------------------------- the store's side
\* client.get(key, limit 1).kvs().first(): no range end, so the exact key only
Lookup(st, key) == IF key \in DOMAIN st THEN st[key] ELSE NoKV

\* client.put(key, value, option): creates or overwrites, bound to lease (0: none)
StorePut(st, key, value, lease) ==
    [st EXCEPT ![key] = [present |-> TRUE, val |-> value, lease |-> lease]]

\* (a delete of the one key alone, as Etcd::delete)
HasPrefix_Exact(key, p) == key = p

\* DeleteOptions::new().with_prefix(): the keys that begin with p
HasPrefix(key, p) == Len(p) <= Len(key) /\ SubSeq(key, 1, Len(p)) = p

\* client.delete(p, with_prefix): every key in the range is removed
StoreDeletePrefix(st, p) ==
    [k \in DOMAIN st |-> IF HasPrefix(k, p) THEN NoKV ELSE st[k]]

\* .deleted(): the number of keys the delete removed
Deleted(st, p) == Cardinality({k \in DOMAIN st : st[k].present /\ HasPrefix(k, p)})

\* the store holds lease id (0 is "no lease")
LeaseHeld(ls, id) == id \in LeaseIds /\ ls[id].live

\* a put names a lease the store still holds, or none
LeaseUsable(ls, id) == id = 0 \/ LeaseHeld(ls, id)

\* client.lease_grant(ttl, None): a fresh lease with its full life
LeaseGrant(ls, id, ttl) ==
    [ls EXCEPT ![id] = [live |-> TRUE, ttl |-> ttl, remaining |-> ttl]]

\* client.lease_keep_alive(id): one heartbeat; the lease's remaining life is
\* reset to its ttl; a lease the store does not hold (0, or expired) is untouched
LeaseKeepAlive(ls, id) ==
    IF LeaseHeld(ls, id)
    THEN [ls EXCEPT ![id].remaining = ls[id].ttl]
    ELSE ls

\* ------------------------------------------------------- the code's choices
\* (a put that always grants a lease)
NeedsLease_Always(ttl) == TRUE

\* (a put that never attaches a lease)
NeedsLease_Never(ttl) == FALSE

\* put: `if ttl == 0 { no lease } else { lease_grant(ttl) }`
NeedsLease(ttl) == ttl # 0

\* (a touch that heartbeats whatever lease id the lookup gave)
TouchHeartbeats_Always(lease) == TRUE

\* touch: `if lease != 0 { lease_keep_alive(lease) }`
TouchHeartbeats(lease) == lease # 0

\* (a put_or_touch that writes whether or not the key exists)
PutOrTouchBranch_AlwaysPut(found) == "put"

\* put_or_touch: `if let Some(prev) = get(key).first() { keep_alive } else { put }`
PutOrTouchBranch(found) == IF found THEN "keepalive" ELSE "put"

\* (a period of the whole ttl)
KeepAliveInterval_Full(ttl) == ttl

\* (half the ttl, rounded up)
KeepAliveInterval_Ceil(ttl) == (ttl + 1) \div 2

\* Duration::from_secs((config.ttl / 2) as u64)
KeepAliveInterval(ttl) == ttl \div 2

\* (the router record before the url record)
Records_RouterFirst(r) ==
    << [key |-> RouterKey(r.name), value |-> r.name],
       [key |-> UrlKey(r.name), value |-> r.url] >>
    \o [i \in 1..Len(r.tags) |->
          [key |-> split_once(r.tags[i])[1], value |-> split_once(r.tags[i])[2]]]

\* the records of a registration, in the order the loop reconciles them
Records(r) ==
    << [key |-> UrlKey(r.name), value |-> r.url],
       [key |-> RouterKey(r.name), value |-> r.name] >>
    \o [i \in 1..Len(r.tags) |->
          [key |-> split_once(r.tags[i])[1], value |-> split_once(r.tags[i])[2]]]

\* the arguments of the loop's i-th put_or_touch
RecArg(r, i) ==
    [key |-> Records(r)[i].key, value |-> Records(r)[i].value, ttl |-> r.ttl]

\* (a loop that gives the tick up at the first error)
LoopAfter_AbortOnErr(i, n, r) == IF r = "err" \/ i >= n THEN "wait" ELSE "get"

\* the loop after a put_or_touch returned: `if let Err(e) = ... { error!(..) }`
\* and on to the next record, or back to keep_alive_interval.tick()
LoopAfter(i, n, r) == IF i < n THEN "get" ELSE "wait"

\* ------------------------------------------------------------ bookkeeping
\* another actor's step may change the key of the caller's call
Foreign ==
    dirty' = (dirty \/ Lookup(store', arg["caller"].key) # Lookup(store, arg["caller"].key))

\* an RPC answers: it succeeds, or fails while failures are still to be injected
Outcome(ok) ==
    /\ ok \/ fails < MaxFail
    /\ fails' = IF ok THEN fails ELSE fails + 1

\* the caller's RPC `name` is answered: ok or failed; a lookup hit or missed
Logged(p, name, ok, hit) ==
    rpcs' = IF p = "caller"
            THEN Append(rpcs, [rpc |-> name, ok |-> ok, hit |-> hit])
            ELSE rpcs

\* task p stays inside its call, suspended at `at`
Stay(p, at) ==
    /\ pc' = [pc EXCEPT ![p] = at]
    /\ UNCHANGED <<ret, rec, arg, loopHist, last>>

\* task p's call returns r; ren: the call created or renewed the record's lease
Return(p, r, ren) ==
    IF p = "caller"
    THEN /\ pc' = [pc EXCEPT ![p] = "idle"]
         /\ ret' = [ret EXCEPT ![p] = r]
         /\ last' = [op |-> op[p], arg |-> arg[p], ret |-> r, pre |-> pre,
                     kv |-> Lookup(store', arg[p].key)]
         /\ UNCHANGED <<rec, arg, loopHist>>
    ELSE LET n == Len(Records(reg))
             nxt == LoopAfter(rec, n, r)
         IN  /\ pc' = [pc EXCEPT ![p] = nxt]
             /\ ret' = ret
             /\ attempted' = attempted \cup {rec}
             /\ failedRecs' = IF r = "err" THEN failedRecs \cup {rec} ELSE failedRecs
             /\ misses' = [misses EXCEPT ![rec] = IF ren THEN 0 ELSE Min(@ + 1, MissCap)]
             /\ renewed' = [renewed EXCEPT ![rec] = @ \/ ren]
             /\ IF nxt = "get"
                THEN /\ rec' = rec + 1
                     /\ arg' = [arg EXCEPT ![p] = RecArg(reg, rec + 1)]
                     /\ UNCHANGED <<ticks, snap>>
                ELSE /\ rec' = 0
                     /\ arg' = arg
                     /\ ticks' = Min(ticks + 1, TickCap)
                     /\ snap' = IF ticks = 0 THEN store' ELSE snap
             /\ UNCHANGED <<last, tick0, elapsed>>

\* ------------------------------------------------------ put_or_touch, put
\* put_or_touch: the lookup answers
Get(p) ==
    /\ pc[p] = "get"
    /\ \E ok \in BOOLEAN :
         LET kv == Lookup(store, arg[p].key)
             br == PutOrTouchBranch(kv.present)
         IN  /\ Outcome(ok)
             /\ Logged(p, "get", ok, ok /\ kv.present)
             /\ UNCHANGED <<storeVars, op, reg, interval, timer, owner, calls, extOps,
                            dirty, puts, grants, idem, out>>
             /\ IF ~ok
                THEN /\ Return(p, "err", FALSE)
                     /\ UNCHANGED <<prev, granted, pre>>
                ELSE /\ pre' = pre
                     /\ IF br = "keepalive"
                        THEN /\ prev' = [prev EXCEPT ![p] = kv.lease]
                             /\ UNCHANGED granted
                             /\ Stay(p, "keepalive")
                        ELSE /\ granted' = [granted EXCEPT ![p] = 0]
                             /\ UNCHANGED prev
                             /\ Stay(p, IF NeedsLease(arg[p].ttl) THEN "grant" ELSE "put")
\* put_or_touch, key found: the heartbeat on the found record's lease answers
KeepAlive(p) ==
    /\ pc[p] = "keepalive"
    /\ \E ok \in BOOLEAN :
         \* on a lease the store does not hold the client may answer either way
         /\ ok \/ fails < MaxFail \/ ~LeaseHeld(leases, prev[p])
         /\ fails' = IF ok \/ ~LeaseHeld(leases, prev[p]) THEN fails ELSE fails + 1
         /\ leases' = IF ok THEN LeaseKeepAlive(leases, prev[p]) ELSE leases
         /\ prev' = [prev EXCEPT ![p] = 0]
         /\ Logged(p, "keepalive", ok, FALSE)
         /\ UNCHANGED <<store, nextLease, op, granted, reg, interval, timer,
                        owner, calls, extOps, pre, dirty, puts, grants, idem, out>>
         /\ Return(p, IF ok THEN "ok" ELSE "err",
                   ok /\ LeaseHeld(leases, prev[p]))

\* put, ttl # 0: lease_grant answers
Grant(p) ==
    /\ pc[p] = "grant"
    /\ \E ok \in BOOLEAN :
         /\ Outcome(ok)
         /\ Logged(p, "grant", ok, FALSE)
         /\ UNCHANGED <<store, op, prev, reg, interval, timer, owner, calls, extOps,
                        pre, dirty, puts, idem, out>>
         /\ IF ok
            THEN /\ nextLease <= MaxLeases
                 /\ leases' = LeaseGrant(leases, nextLease, arg[p].ttl)
                 /\ nextLease' = nextLease + 1
                 /\ granted' = [granted EXCEPT ![p] = nextLease]
                 /\ grants' = IF p = "caller" THEN grants + 1 ELSE grants
                 /\ Stay(p, "put")
            ELSE /\ UNCHANGED <<leases, nextLease, granted, grants>>
                 /\ Return(p, "err", FALSE)

\* put: the store's put answers; the store refuses a lease it no longer holds
Put(p) ==
    /\ pc[p] = "put"
    /\ \E ok \in BOOLEAN :
         LET done == ok /\ LeaseUsable(leases, granted[p])
         IN  /\ ok \/ fails < MaxFail
             /\ fails' = IF done THEN fails ELSE Min(fails + 1, MaxFail)
             /\ store' = IF done
                         THEN StorePut(store, arg[p].key, arg[p].value, granted[p])
                         ELSE store
             /\ owner' = IF done THEN [owner EXCEPT ![arg[p].key] = p] ELSE owner
             /\ puts' = IF p = "caller" THEN puts + 1 ELSE puts
             /\ granted' = [granted EXCEPT ![p] = 0]
             /\ Logged(p, "put", done, FALSE)
             /\ UNCHANGED <<leases, nextLease, op, prev, reg, interval, timer,
                            calls, extOps, pre, dirty, grants, idem, out>>
             /\ Return(p, IF done THEN "ok" ELSE "err", done)

\* ------------------------------------------------------- a direct caller
\* put_or_touch(key, value, ttl) is entered
EnterPutOrTouch(k, v, t) ==
    /\ pc["caller"] = "idle"
    /\ pc' = [pc EXCEPT !["caller"] = "get"]
    /\ op' = [op EXCEPT !["caller"] = "put_or_touch"]
    /\ arg' = [arg EXCEPT !["caller"] = [key |-> k, value |-> v, ttl |-> t]]
    /\ prev' = [prev EXCEPT !["caller"] = 0]
    /\ granted' = [granted EXCEPT !["caller"] = 0]
    /\ ret' = [ret EXCEPT !["caller"] = "none"]
    /\ pre' = Lookup(store, k)
    /\ dirty' = FALSE
    /\ puts' = 0
    /\ grants' = 0
    /\ out' = NoOut
    /\ rpcs' = << >>
    /\ idem' = [on |-> /\ last.op = "put_or_touch"
                       /\ last.arg = [key |-> k, value |-> v, ttl |-> t]
                       /\ last.ret = "ok"
                       /\ ~dirty,
                pre |-> last.pre,
                kv |-> last.kv]
    /\ calls' = calls + 1
    /\ UNCHANGED <<storeVars, loopVars, owner, fails, extOps, loopHist, last>>

\* a caller invokes put_or_touch(key, value, ttl)
CallPutOrTouch(k, v, t) ==
    /\ calls < MaxCalls
    /\ EnterPutOrTouch(k, v, t)

\* the loop of the second service in its first tick: put_or_touch on its next
\* record, one record after the other
WebReconcile ==
    /\ calls < Len(Records(RegWeb))
    /\ LET a == RecArg(RegWeb, calls + 1)
       IN  EnterPutOrTouch(a.key, a.value, a.ttl)

\* a caller invokes put(key, value, ttl)
CallPut(k, v, t) ==
    /\ pc["caller"] = "idle"
    /\ pc' = [pc EXCEPT !["caller"] = IF NeedsLease(t) THEN "grant" ELSE "put"]
    /\ op' = [op EXCEPT !["caller"] = "put"]
    /\ arg' = [arg EXCEPT !["caller"] = [key |-> k, value |-> v, ttl |-> t]]
    /\ prev' = [prev EXCEPT !["caller"] = 0]
    /\ granted' = [granted EXCEPT !["caller"] = 0]
    /\ ret' = [ret EXCEPT !["caller"] = "none"]
    /\ pre' = Lookup(store, k)
    /\ dirty' = FALSE
    /\ puts' = 0
    /\ grants' = 0
    /\ out' = NoOut
    /\ rpcs' = << >>
    /\ idem' = NoIdem
    /\ calls < MaxCalls
    /\ calls' = calls + 1
    /\ UNCHANGED <<storeVars, loopVars, owner, fails, extOps, loopHist, last>>

\* a caller invokes operation o on key (or prefix) k and is suspended at its
\* first RPC
Begin(o, at, k) ==
    /\ pc["caller"] = "idle"
    /\ calls < MaxCalls
    /\ calls' = calls + 1
    /\ pc' = [pc EXCEPT !["caller"] = at]
    /\ op' = [op EXCEPT !["caller"] = o]
    /\ arg' = [arg EXCEPT !["caller"] = [key |-> k, value |-> EmptyStr, ttl |-> 0]]
    /\ prev' = [prev EXCEPT !["caller"] = 0]
    /\ granted' = [granted EXCEPT !["caller"] = 0]
    /\ ret' = [ret EXCEPT !["caller"] = "none"]
    /\ pre' = Lookup(store, k)
    /\ dirty' = FALSE
    /\ puts' = 0
    /\ grants' = 0
    /\ out' = NoOut
    /\ rpcs' = << >>
    /\ idem' = [on |-> last.ret = "ok" /\ last.arg.key = k /\ ~dirty,
                pre |-> last.pre,
                kv |-> last.kv]
    /\ UNCHANGED <<storeVars, loopVars, owner, fails, extOps, loopHist, last>>

\* a caller invokes get(key)
CallGet(k) == Begin("get", "get_first", k)

\* get: the lookup answers; `.kvs().first().cloned().ok_or_eyre("data not found")`
GetFirst ==
    /\ pc["caller"] = "get_first"
    /\ \E ok \in BOOLEAN :
         LET kv == Lookup(store, arg["caller"].key)
         IN  /\ Outcome(ok)
             /\ Logged("caller", "get", ok, ok /\ kv.present)
             /\ out' = IF ok /\ kv.present THEN [kv |-> kv, n |-> 0] ELSE out
             /\ UNCHANGED <<storeVars, op, prev, granted, reg, interval, timer, owner,
                            calls, extOps, pre, dirty, puts, grants, idem>>
             /\ Return("caller",
                       IF ~ok THEN "err" ELSE IF kv.present THEN "ok" ELSE "notfound",
                       FALSE)

\* a caller invokes delete_with_prefix(p)
CallDeleteWithPrefix(p) == Begin("delete_with_prefix", "delete", p)

\* delete_with_prefix: the delete answers; `.deleted()` is returned
DeletePrefix ==
    /\ pc["caller"] = "delete"
    /\ \E ok \in BOOLEAN :
         LET p == arg["caller"].key
         IN  /\ Outcome(ok)
             /\ Logged("caller", "delete", ok, FALSE)
             /\ store' = IF ok THEN StoreDeletePrefix(store, p) ELSE store
             /\ owner' = IF ok
                         THEN [k \in DOMAIN owner |->
                                 IF HasPrefix(k, p) THEN "none" ELSE owner[k]]
                         ELSE owner
             /\ out' = IF ok THEN [kv |-> NoKV, n |-> Deleted(store, p)] ELSE out
             /\ UNCHANGED <<leases, nextLease, op, prev, granted, reg, interval, timer,
                            calls, extOps, pre, dirty, puts, grants, idem>>
             /\ Return("caller", IF ok THEN "ok" ELSE "err", FALSE)

\* a caller invokes touch(key)
CallTouch(k) == Begin("touch", "touch_get", k)

\* touch: the lookup answers; the heartbeat follows on a lease id other than 0
\* (and is the step KeepAlive), else Ok(()) is returned at once
TouchGet ==
    /\ pc["caller"] = "touch_get"
    /\ \E ok \in BOOLEAN :
         LET kv == Lookup(store, arg["caller"].key)
             lease == IF kv.present THEN kv.lease ELSE 0
         IN  /\ Outcome(ok)
             /\ Logged("caller", "get", ok, ok /\ kv.present)
             /\ UNCHANGED <<storeVars, op, granted, reg, interval, timer, owner,
                            calls, extOps, pre, dirty, puts, grants, idem, out>>
             /\ IF ok /\ TouchHeartbeats(lease)
                THEN /\ prev' = [prev EXCEPT !["caller"] = lease]
                     /\ Stay("caller", "keepalive")
                ELSE /\ prev' = prev
                     /\ Return("caller", IF ok THEN "ok" ELSE "err", FALSE)

\* ------------------------------------------- the store's leases, and time
\* a lease whose ttl has elapsed without a heartbeat is revoked, and every key
\* bound to it is deleted
Expire(id) ==
    /\ leases[id].live
    /\ leases[id].remaining = 0
    /\ leases' = [leases EXCEPT ![id] = NoLease]
    /\ store' = [k \in DOMAIN store |->
                   IF store[k].present /\ store[k].lease = id THEN NoKV ELSE store[k]]
    /\ owner' = [k \in DOMAIN owner |->
                   IF store[k].present /\ store[k].lease = id THEN "none" ELSE owner[k]]
    /\ Foreign
    /\ UNCHANGED <<nextLease, taskVars, loopVars, fails, calls, extOps, loopHist,
                   pre, puts, grants, last, idem, out, rpcs>>

\* one second passes.  A lease that has run out is revoked before the next second
\* begins, a due tick fires before it, and the RPCs of a call or of a tick complete
\* within it.
Advance ==
    /\ \A id \in LeaseIds : leases[id].live => leases[id].remaining > 0
    /\ pc["caller"] = "idle"
    /\ pc["loop"] \in {"idle", "panicked", "stopped"} \/ (pc["loop"] = "wait" /\ timer > 0)
    /\ leases' = [id \in LeaseIds |->
                    IF leases[id].live
                    THEN [leases[id] EXCEPT !.remaining = @ - 1]
                    ELSE leases[id]]
    /\ timer' = IF pc["loop"] = "wait" THEN timer - 1 ELSE timer
    /\ elapsed' = IF pc["loop"] = "stopped" THEN Min(elapsed + 1, MaxTtl + 1) ELSE elapsed
    /\ UNCHANGED <<store, nextLease, taskVars, reg, interval, rec, owner, fails, calls,
                   extOps, ticks, snap, attempted, failedRecs, misses, renewed, tick0,
                   callHist>>

\* ------------------------------------------------------ an external actor
\* another client of the store writes key k in place, with no lease
ExtPut(k) ==
    /\ extOps < MaxExt
    /\ extOps' = extOps + 1
    /\ store' = StorePut(store, k, ExtVal, 0)
    /\ owner' = [owner EXCEPT ![k] = "ext"]
    /\ Foreign
    /\ UNCHANGED <<leases, nextLease, taskVars, loopVars, fails, calls, loopHist,
                   pre, puts, grants, last, idem, out, rpcs>>

\* another client of the store deletes key k
ExtDelete(k) ==
    /\ extOps < MaxExt
    /\ store[k].present
    /\ extOps' = extOps + 1
    /\ store' = [store EXCEPT ![k] = NoKV]
    /\ owner' = [owner EXCEPT ![k] = "none"]
    /\ Foreign
    /\ UNCHANGED <<leases, nextLease, taskVars, loopVars, fails, calls, loopHist,
                   pre, puts, grants, last, idem, out, rpcs>>

\* ------------------------------------------------- keep_service_register
\* keep_service_register: the interval is built (tokio::time::interval panics on
\* a zero period), the loop is spawned, Ok(()) is returned
Start(name, url, tags, ttl) ==
    /\ pc["loop"] = "idle"
    /\ reg' = [name |-> name, url |-> url, tags |-> tags, ttl |-> ttl]
    /\ interval' = KeepAliveInterval(ttl)
    /\ timer' = 0
    /\ pc' = [pc EXCEPT !["loop"] = IF interval' = 0 THEN "panicked" ELSE "wait"]
    /\ op' = [op EXCEPT !["loop"] = "keep_service_register"]
    /\ ret' = [ret EXCEPT !["loop"] = IF interval' = 0 THEN "none" ELSE "ok"]
    /\ UNCHANGED <<storeVars, arg, prev, granted, rec, owner, fails, calls, extOps,
                   loopHist, callHist>>

\* keep_alive_interval.tick().await completes: the first at once, then one each
\* period; the loop starts on its first record (t0: what is noted of the store
\* as the tick finds it)
TickNoting(t0) ==
    /\ pc["loop"] = "wait"
    /\ timer = 0
    /\ timer' = interval
    /\ rec' = 1
    /\ arg' = [arg EXCEPT !["loop"] = RecArg(reg, 1)]
    /\ pc' = [pc EXCEPT !["loop"] = "get"]
    /\ attempted' = {}
    /\ failedRecs' = {}
    /\ tick0' = t0
    /\ UNCHANGED <<storeVars, op, prev, granted, ret, reg, interval, owner, fails, calls,
                   extOps, ticks, snap, misses, renewed, elapsed, callHist>>

\* a tick, nothing noted
Tick == TickNoting(NoTick)

\* a tick, noted: the operations other clients have performed, the records the
\* store does not hold, the next lease id
TickSeen ==
    TickNoting([on |-> TRUE, ext |-> extOps,
                absent |-> {i \in 1..Len(Records(reg)) :
                               ~store[Records(reg)[i].key].present},
                lease |-> nextLease])

\* the process that runs the loop exits: the spawned task is gone, wherever it
\* was suspended, and an RPC it was waiting on is never followed up
Stop ==
    /\ pc["loop"] \in {"wait", "get", "keepalive", "grant", "put"}
    /\ pc' = [pc EXCEPT !["loop"] = "stopped"]
    /\ elapsed' = 0
    /\ UNCHANGED <<storeVars, op, arg, prev, granted, ret, loopVars, owner, fails, calls,
                   extOps, ticks, snap, attempted, failedRecs, misses, renewed, tick0,
                   callHist>>

\* ---------------------------------------------------------- specifications
External(keys) ==
    \/ \E k \in keys : ExtPut(k)
    \/ \E k \in keys : ExtDelete(k)

Clock ==
    \/ \E id \in LeaseIds : Expire(id)
    \/ Advance

\* the registration loop, the store and an external actor
Next ==
    \/ \E n \in Names, tl \in TagLists, t \in 1..MaxTtl : Start(n, UrlApi, tl, t)
    \/ Tick
    \/ Get("loop")
    \/ KeepAlive("loop")
    \/ Grant("loop")
    \/ Put("loop")
    \/ External(ExtLoopKeys)
    \/ Clock

Spec == Init /\ [][Next]_vars

\* the same, with a process that may exit
NextLife ==
    \/ Next
    \/ Stop

SpecLife == Init /\ [][NextLife]_vars

\* the registration loop, each tick noted, beside lease expiry and a client
\* that deletes
NextBack ==
    \/ \E n \in Names, tl \in TagLists, t \in 1..MaxTtl : Start(n, UrlApi, tl, t)
    \/ TickSeen
    \/ Get("loop")
    \/ KeepAlive("loop")
    \/ Grant("loop")
    \/ Put("loop")
    \/ \E k \in ExtLoopKeys : ExtDelete(k)
    \/ Clock

SpecBack == Init /\ [][NextBack]_vars

\* direct calls of put and put_or_touch, the store and an external actor
NextCall ==
    \/ \E k \in CallKeys, v \in CallVals, t \in 0..MaxCallTtl : CallPutOrTouch(k, v, t)
    \/ \E k \in CallKeys, v \in CallVals, t \in 0..MaxCallTtl : CallPut(k, v, t)
    \/ Get("caller")
    \/ KeepAlive("caller")
    \/ Grant("caller")
    \/ Put("caller")
    \/ External(ExtCallKeys)
    \/ Clock

SpecCall == Init /\ [][NextCall]_vars

\* a store other clients have filled: each of OpsKeys is absent, or holds ExtVal
\* with no lease or under lease 1, a lease of InitTtl seconds of which one has
\* run
InitOps ==
    /\ \E held \in SUBSET OpsKeys, leased \in SUBSET OpsKeys :
         /\ leased \subseteq held
         /\ store = [k \in Keys |->
                       IF k \in held
                       THEN [present |-> TRUE, val |-> ExtVal,
                             lease |-> IF k \in leased THEN 1 ELSE 0]
                       ELSE NoKV]
         /\ owner = [k \in Keys |-> IF k \in held THEN "ext" ELSE "none"]
    /\ leases = [l \in LeaseIds |->
                   IF l = 1
                   THEN [live |-> TRUE, ttl |-> InitTtl, remaining |-> InitTtl - 1]
                   ELSE NoLease]
    /\ nextLease = 2
    /\ pc = [p \in Procs |-> "idle"]
    /\ op = [p \in Procs |-> "none"]
    /\ arg = [p \in Procs |-> NoArg]
    /\ prev = [p \in Procs |-> 0]
    /\ granted = [p \in Procs |-> 0]
    /\ ret = [p \in Procs |-> "none"]
    /\ reg = NoReg
    /\ interval = 0
    /\ timer = 0
    /\ rec = 0
    /\ fails = 0
    /\ calls = 0
    /\ extOps = 0
    /\ ticks = 0
    /\ snap = [k \in Keys |-> NoKV]
    /\ attempted = {}
    /\ failedRecs = {}
    /\ misses = [i \in 1..MaxRecs |-> 0]
    /\ renewed = [i \in 1..MaxRecs |-> FALSE]
    /\ tick0 = NoTick
    /\ elapsed = 0
    /\ pre = NoKV
    /\ dirty = FALSE
    /\ puts = 0
    /\ grants = 0
    /\ last = NoCall
    /\ idem = NoIdem
    /\ out = NoOut
    /\ rpcs = << >>

\* direct calls of put, get, touch and delete_with_prefix on such a store
NextOps ==
    \/ \E k \in CallKeys, t \in 0..MaxCallTtl : CallPut(k, OpsVal, t)
    \/ \E k \in CallKeys : CallGet(k)
    \/ \E k \in CallKeys : CallTouch(k)
    \/ \E p \in Prefixes : CallDeleteWithPrefix(p)
    \/ GetFirst
    \/ TouchGet
    \/ DeletePrefix
    \/ KeepAlive("caller")
    \/ Grant("caller")
    \/ Put("caller")
    \/ Clock

SpecOps == InitOps /\ [][NextOps]_vars

\* two registrations side by side: the loop of "api", and the first tick of the
\* loop of "web"
NextPair ==
    \/ \E n \in Names, tl \in TagLists, t \in 1..MaxTtl : Start(n, UrlApi, tl, t)
    \/ Tick
    \/ Get("loop")
    \/ KeepAlive("loop")
    \/ Grant("loop")
    \/ Put("loop")
    \/ WebReconcile
    \/ Get("caller")
    \/ KeepAlive("caller")
    \/ Grant("caller")
    \/ Put("caller")
    \/ Clock

SpecPair == InitOn(PairKeys) /\ [][NextPair]_vars

\* ================================================================== claims
\* the key of the caller's call, as the store holds it
CallKV == store[arg["caller"].key]

\* C1: when put_or_touch is called on a key the store holds, and no other actor
\* changes that key, the key keeps its value and its lease id at every point of
\* the call and after it, whatever value and ttl were passed.
C1_ExistingKeyKept ==
    (op["caller"] = "put_or_touch" /\ pre.present /\ ~dirty) => CallKV = pre

\* C1 witness: a successful put_or_touch on a leased key, passing another value.
C1_Witness ==
    /\ op["caller"] = "put_or_touch"
    /\ pc["caller"] = "idle"
    /\ ret["caller"] = "ok"
    /\ pre.present
    /\ pre.lease # 0
    /\ pre.val # arg["caller"].value
    /\ ~dirty
    /\ CallKV = pre

\* the step in which a put_or_touch that found no key returns success
PutOrTouchCreates ==
    /\ op["caller"] = "put_or_touch"
    /\ pc["caller"] = "put"
    /\ pc'["caller"] = "idle"
    /\ ret'["caller"] = "ok"

\* C2: a successful put_or_touch on an absent key leaves the key present with the
\* value passed; with ttl > 0 bound to the one lease the call granted, whose TTL
\* is ttl; with ttl = 0 bound to no lease, and the call granted none.
C2_AbsentKeyCreated ==
    [][PutOrTouchCreates =>
         LET a == arg["caller"]
             kv == store'[a.key]
         IN  /\ kv.present
             /\ kv.val = a.value
             /\ IF a.ttl > 0
                THEN /\ grants' = 1
                     /\ kv.lease = granted["caller"]
                     /\ kv.lease # 0
                     /\ LeaseHeld(leases', kv.lease)
                     /\ leases'[kv.lease].ttl = a.ttl
                ELSE /\ grants' = 0
                     /\ kv.lease = 0
                     /\ nextLease' = nextLease]_vars

\* C2 witness: put_or_touch has created the absent key "a" under a fresh lease
\* while the store held "env", a key that sorts after it.
C2_Witness ==
    /\ op["caller"] = "put_or_touch"
    /\ pc["caller"] = "idle"
    /\ ret["caller"] = "ok"
    /\ ~pre.present
    /\ puts = 1
    /\ grants = 1
    /\ arg["caller"].key = KeyA
    /\ arg["caller"].ttl > 0
    /\ CallKV.present
    /\ CallKV.val = arg["caller"].value
    /\ CallKV.lease # 0
    /\ store[KeyEnv].present
    /\ extOps = 1

\* C10: when put_or_touch(k, v, ttl) has returned success and is called again with
\* the same arguments, no other actor changing k since the first call began, the
\* second call issues no put and k keeps the value and lease id the first call
\* left it with.
C10_Idempotent ==
    (op["caller"] = "put_or_touch" /\ idem.on /\ ~dirty) =>
        /\ puts = 0
        /\ idem.kv.present
        /\ CallKV = idem.kv

\* C10 witness: the second of two equal calls has returned; the first created the
\* key under a lease.
C10_Witness ==
    /\ op["caller"] = "put_or_touch"
    /\ pc["caller"] = "idle"
    /\ ret["caller"] = "ok"
    /\ idem.on
    /\ ~dirty
    /\ idem.kv.present
    /\ idem.kv.lease # 0
    /\ calls = 2
    /\ extOps = 0

\* ------------------------------------------------------------ the loop
InTick == pc["loop"] \in {"get", "keepalive", "grant", "put"}
Running == pc["loop"] = "wait" \/ InTick
\* no RPC has failed and no external actor has touched the store
Clean == fails = 0 /\ extOps = 0
NRecs == Len(Records(reg))
RecKey(i) == Records(reg)[i].key
WellFormed(tags) == \A i \in 1..Len(tags) : FirstEq(tags[i]) # 0

\* "traefik/http/services/api/loadbalancer/servers/api/url"
ApiUrlKey ==
    <<"t","r","a","e","f","i","k","/","h","t","t","p","/",
      "s","e","r","v","i","c","e","s","/","a","p","i","/",
      "l","o","a","d","b","a","l","a","n","c","e","r","/",
      "s","e","r","v","e","r","s","/","a","p","i","/","u","r","l">>
\* "traefik/http/routers/api/service"
ApiRouterKey ==
    <<"t","r","a","e","f","i","k","/","h","t","t","p","/",
      "r","o","u","t","e","r","s","/","a","p","i","/",
      "s","e","r","v","i","c","e">>

\* key k holds value v under a live lease of the registration's ttl
Registered(k, v) ==
    /\ k \in Keys
    /\ store[k].present
    /\ store[k].val = v
    /\ LeaseHeld(leases, store[k].lease)
    /\ leases[store[k].lease].ttl = reg.ttl

\* key k's lease has its whole life ahead
FullLife(k) ==
    /\ k \in Keys
    /\ LeaseHeld(leases, store[k].lease)
    /\ leases[store[k].lease].remaining = reg.ttl

\* a tick of an undisturbed registration of "api" with well-formed tags has ended
AfterCleanTick ==
    /\ Clean
    /\ pc["loop"] = "wait"
    /\ ticks >= 1
    /\ reg.name = NameApi
    /\ WellFormed(reg.tags)

\* what C4 says of the two traefik keys, of lease ids and of lease lives
C4_Common ==
    /\ Registered(ApiUrlKey, reg.url)
    /\ Registered(ApiRouterKey, NameApi)
    /\ ticks >= 2 => \A k \in Keys : store[k] = snap[k]
    /\ timer = interval =>
         /\ FullLife(ApiUrlKey)
         /\ FullLife(ApiRouterKey)
         /\ \A i \in 1..Len(reg.tags) : FullLife(split_once(reg.tags[i])[1])

\* C3 (as claimed): no step of the loop changes the value an external actor wrote
\* to a key while the key stays present.
C3_NeverClobbers ==
    [][\A k \in Keys :
         (owner[k] = "ext" /\ store[k].present /\ store'[k].present
            /\ owner'[k] = "loop")
         => store'[k].val = store[k].val]_vars

\* C4 (as claimed): after the first tick of an undisturbed registration the url
\* key holds the url, the router key the service name and every tag key its tag's
\* value, each under a lease of ttl; after a second tick keys, values and lease
\* ids are the same and the leases' lives are reset in full.
C4_AsClaimed ==
    AfterCleanTick =>
        /\ C4_Common
        /\ \A i \in 1..Len(reg.tags) :
             Registered(split_once(reg.tags[i])[1], split_once(reg.tags[i])[2])

\* the first record, in the order of reconciliation, that carries record i's key
FirstWithKey(i) ==
    CHOOSE j \in 1..i :
        /\ RecKey(j) = RecKey(i)
        /\ \A h \in 1..(j-1) : RecKey(h) # RecKey(i)

\* C4 (amended): as claimed, but a key that several records of the registration
\* carry holds the value of the first of them in the order of reconciliation
\* (of two tags with one key, the first tag's value).
C4_FirstRecordWins ==
    AfterCleanTick =>
        /\ C4_Common
        /\ \A i \in 1..NRecs :
             Registered(RecKey(i), Records(reg)[FirstWithKey(i)].value)

\* C4 witness: the second tick of an undisturbed registration with two tags of
\* the same key has just ended.
C4_Witness ==
    /\ AfterCleanTick
    /\ ticks >= 2
    /\ timer = interval
    /\ reg.tags = <<TagABC, TagAB>>
    /\ store[KeyA].val = <<"b","=","c">>
    /\ store[ApiUrlKey] = snap[ApiUrlKey]
    /\ store[ApiUrlKey].lease # 0

\* C5: a failed reconciliation does not end the tick: put_or_touch is called on
\* every record of the registration, in order, in every tick, and the next tick
\* stays due one period after this one began.
C5_TickRunsToTheEnd ==
    /\ (pc["loop"] = "wait" /\ ticks >= 1) =>
           (attempted = 1..NRecs /\ timer <= interval)
    /\ InTick => (attempted = 1..(rec - 1) /\ timer = interval)

\* C5 witness: a tick has ended in which the first record failed and every other
\* record was reconciled without failure.
C5_Witness ==
    /\ pc["loop"] = "wait"
    /\ failedRecs = {1}
    /\ attempted = 1..NRecs
    /\ timer = interval
    /\ \A i \in 2..NRecs : store[RecKey(i)].present

\* C6: while no RPC fails and no external actor interferes, a record the loop
\* has created or renewed is present in every later state.
C6_NoExpiry ==
    (Clean /\ Running) => \A i \in 1..NRecs : renewed[i] => store[RecKey(i)].present

\* C6 witness: two undisturbed ticks have passed and the first record is there,
\* part of its lease's life used up.
C6_Witness ==
    /\ Clean
    /\ pc["loop"] = "wait"
    /\ ticks >= 2
    /\ timer = 0
    /\ renewed[1]
    /\ store[RecKey(1)].present
    /\ leases[store[RecKey(1)].lease].remaining < reg.ttl

\* C7 (as claimed): a record whose lease the loop has created or renewed does not
\* expire before the loop has reconciled it twice more, so that one missed tick
\* never costs the record.
C7_OneMissedTickSurvived ==
    [][\A i \in 1..MaxRecs :
         (/\ extOps' = 0
          /\ Running
          /\ i <= NRecs
          /\ renewed[i]
          /\ store[RecKey(i)].present
          /\ ~store'[RecKey(i)].present)
         => misses[i] >= 2]_vars

\* C8 (as claimed): the period is exactly half the ttl.
C8_ExactHalf == pc["loop"] # "idle" => 2 * interval = reg.ttl

\* C8 (amended): the period is half the ttl rounded down to whole seconds.
C8_HalfRoundedDown ==
    pc["loop"] # "idle" => (2 * interval <= reg.ttl /\ reg.ttl <= 2 * interval + 1)

\* C8 witness: a registration with ttl 3 runs with a period of 1 second.
C8_Witness == pc["loop"] = "wait" /\ reg.ttl = 3 /\ interval = 1 /\ ticks >= 1

\* C9 (as claimed): started with ttl > 0, keep_service_register returns and the
\* loop runs; no crashed state is reached.
C9_StartNeverFails ==
    (pc["loop"] # "idle" /\ reg.ttl > 0) => (Running /\ ret["loop"] = "ok")


\* ------------------------------------------------- put, get, delete, touch
\* the step in which the caller's get returns
GetReturns ==
    /\ op["caller"] = "get"
    /\ pc["caller"] = "get_first"
    /\ pc'["caller"] = "idle"

\* C11: when put(k, v, 0) has returned success and get(k) is the next call, no
\* other actor changing k since the put began, the get does not miss the key, and
\* a get that returns success returns k with value v and lease id 0, whatever k
\* held before the put.
C11_PutThenGet ==
    [][(/\ GetReturns
        /\ last.op = "put"
        /\ last.arg.ttl = 0
        /\ idem.on
        /\ ~dirty)
       => /\ ret'["caller"] # "notfound"
          /\ ret'["caller"] = "ok" =>
               out'.kv = [present |-> TRUE, val |-> last.arg.value, lease |-> 0]]_vars

\* C11 witness: get has returned "a" with the value put and no lease; before the
\* put "a" held another value under a lease.
C11_Witness ==
    /\ op["caller"] = "get"
    /\ pc["caller"] = "idle"
    /\ ret["caller"] = "ok"
    /\ idem.on
    /\ ~dirty
    /\ idem.pre.present
    /\ idem.pre.lease # 0
    /\ idem.pre.val # out.kv.val
    /\ idem.kv = out.kv
    /\ out.kv.val = OpsVal
    /\ out.kv.lease = 0
    /\ arg["caller"].key = KeyA

\* key begins with p
StartsWith(key, p) ==
    /\ Len(p) <= Len(key)
    /\ \A i \in 1..Len(p) : key[i] = p[i]

\* the step in which the caller's delete_with_prefix returns success
DeleteReturnsOk ==
    /\ op["caller"] = "delete_with_prefix"
    /\ pc["caller"] = "delete"
    /\ pc'["caller"] = "idle"
    /\ ret'["caller"] = "ok"

\* C12: a successful delete_with_prefix(p) removes every key that begins with p,
\* leaves every other key with its value and lease id, leaves the leases alone,
\* and returns the number of keys it removed (0 when no key begins with p).
C12_DeletesThePrefix ==
    [][DeleteReturnsOk =>
         LET p == arg["caller"].key
         IN  /\ \A k \in Keys :
                  IF StartsWith(k, p) THEN ~store'[k].present ELSE store'[k] = store[k]
             /\ out'.n = Cardinality({k \in Keys : store[k].present /\ StartsWith(k, p)})
             /\ out'.n = Cardinality({k \in Keys : store[k].present})
                           - Cardinality({k \in Keys : store'[k].present})
             /\ leases' = leases]_vars

\* C12 witness: delete_with_prefix("traefik/") has removed the two traefik keys
\* and left "a" under its lease.
C12_Witness ==
    /\ op["caller"] = "delete_with_prefix"
    /\ pc["caller"] = "idle"
    /\ ret["caller"] = "ok"
    /\ arg["caller"].key = PrefixTraefik
    /\ out.n = 2
    /\ ~store[ApiUrlKey].present
    /\ ~store[ApiRouterKey].present
    /\ store[KeyA].present
    /\ store[KeyA].lease = 1


\* ------------------------------------------------------ two registrations
\* C13 (as claimed): the loops of two services with distinct names work on
\* disjoint keys: neither is ever inside a put_or_touch (lookup, heartbeat, grant
\* or put) on a key whose current record the other loop wrote.
C13_OwnNamespace ==
    /\ InTick => owner[arg["loop"].key] # "caller"
    /\ pc["caller"] # "idle" => owner[arg["caller"].key] # "loop"


\* ------------------------------------------------ the loop, record by record
HasEq(tag) == \E i \in 1..Len(tag) : tag[i] = "="

\* key and value are the two sides of tag's first '='; of a tag with no '=' both
\* are empty
SplitsTag(tag, key, value) ==
    IF HasEq(tag)
    THEN /\ tag = key \o <<"=">> \o value
         /\ \A j \in 1..Len(key) : key[j] # "="
    ELSE key = EmptyStr /\ value = EmptyStr

\* C14: in every tick each tag, in turn, is reconciled by a put_or_touch whose key
\* and value are the two sides of the tag's first '=' ("a=b": "a", "b"; "a=b=c":
\* "a", "b=c") and whose ttl is the registration's; a tag with no '=' is
\* reconciled with key "" and value "", it is not left out.
C14_TagSplitAtFirstEq ==
    /\ Running => NRecs = 2 + Len(reg.tags)
    /\ (pc["loop"] = "wait" /\ ticks >= 1) => attempted = 1..(2 + Len(reg.tags))
    /\ (InTick /\ rec > 2) =>
         LET tag == reg.tags[rec - 2]
             a == arg["loop"]
         IN  /\ SplitsTag(tag, a.key, a.value)
             /\ a.ttl = reg.ttl
             /\ tag = TagAB => (a.key = <<"a">> /\ a.value = <<"b">>)
             /\ tag = TagABC => (a.key = <<"a">> /\ a.value = <<"b","=","c">>)
             /\ tag = TagNoEq => (a.key = << >> /\ a.value = << >>)

\* C14 witness: in a second tick the loop is in the put_or_touch of the tag
\* "noequals", with key "" and value "".
C14_Witness ==
    /\ InTick
    /\ ticks >= 1
    /\ rec = 3
    /\ attempted = {1, 2}
    /\ reg.tags = <<TagNoEq>>
    /\ arg["loop"].key = EmptyStr
    /\ arg["loop"].value = EmptyStr

\* the put_or_touch in progress is the one of record i of the registration: the
\* url record, the router record, then the tags in the order supplied
OnRecord(i, a) ==
    /\ a.ttl = reg.ttl
    /\ i = 1 => (a.key = UrlKey(reg.name) /\ a.value = reg.url)
    /\ i = 2 => (a.key = RouterKey(reg.name) /\ a.value = reg.name)
    /\ i > 2 => (i - 2 <= Len(reg.tags) /\ SplitsTag(reg.tags[i - 2], a.key, a.value))

\* C15: the loop reconciles one record at a time, in the fixed order url record,
\* router record, tags as supplied: it is inside the put_or_touch of record N+1
\* only when those of records 1..N of this tick have returned, it moves from a
\* record only to the next one and only as that record's put_or_touch returns,
\* and a tick begins only from the wait that follows the last record of the tick
\* before.
C15_OneRecordAtATime ==
    [][/\ InTick' =>
            /\ OnRecord(rec', arg'["loop"])
            /\ attempted' = 1..(rec' - 1)
       /\ rec' # rec =>
            \/ /\ rec = 0
               /\ rec' = 1
               /\ pc["loop"] = "wait"
               /\ ticks >= 1 => attempted = 1..(2 + Len(reg.tags))
            \/ /\ InTick
               /\ rec' = rec + 1
               /\ rec < 2 + Len(reg.tags)
               /\ attempted' = attempted \cup {rec}
            \/ /\ InTick
               /\ rec' = 0
               /\ rec = 2 + Len(reg.tags)
               /\ attempted' = 1..rec
               /\ pc'["loop"] = "wait"
       /\ (InTick /\ InTick' /\ rec' = rec) => arg'["loop"] = arg["loop"]]_vars

\* C15 witness: in a second tick the loop has reached its fourth record, the tag
\* "a=b", after the url record, the router record and the tag "a=b=c".
C15_Witness ==
    /\ InTick
    /\ ticks >= 1
    /\ rec = 4
    /\ attempted = {1, 2, 3}
    /\ reg.tags = <<TagABC, TagAB>>
    /\ arg["loop"].key = <<"a">>
    /\ arg["loop"].value = <<"b">>
    /\ failedRecs # {}


\* ------------------------------------------------- the loop's process exits
\* C16 (as claimed): once the loop's process has exited after at least one whole
\* tick and more than ttl seconds have passed, no record of the registration is
\* left in the store, whatever the store held when the registration was started
\* (no other client has written since: what the store holds it held, unchanged,
\* when the first tick ended).
C16_RecordsGoWithTheProcess ==
    (/\ pc["loop"] = "stopped"
     /\ elapsed > reg.ttl
     /\ ticks >= 1
     /\ \A k \in Keys : store[k].present => store[k] = snap[k])
    => \A i \in 1..NRecs : ~store[RecKey(i)].present


\* ------------------------------------------------------ records come back
\* a tick has just ended in which no put_or_touch failed and during which no
\* other client wrote
TickWentThrough ==
    /\ pc["loop"] = "wait"
    /\ tick0.on
    /\ timer = interval
    /\ failedRecs = {}
    /\ extOps = tick0.ext

\* C17: a record of a running registration that the store did not hold when a
\* tick began (its lease expired, or it was deleted) is in the store again when
\* that tick ends, if no RPC of the tick failed: its key holds the registration's
\* value for that key, bound to a lease granted during the tick, of the
\* registration's ttl and with its whole life ahead.
C17_RecreatedByTheNextTick ==
    TickWentThrough =>
        \A i \in tick0.absent :
            LET kv == store[RecKey(i)]
            IN  /\ kv.present
                /\ kv.val = Records(reg)[FirstWithKey(i)].value
                /\ kv.lease >= tick0.lease
                /\ LeaseHeld(leases, kv.lease)
                /\ leases[kv.lease].ttl = reg.ttl
                /\ leases[kv.lease].remaining = reg.ttl

\* C17 witness: the url record, created by the first tick and deleted by another
\* client since, is back under another lease at the end of a later tick.
C17_Witness ==
    /\ TickWentThrough
    /\ ticks >= 2
    /\ fails = 0
    /\ extOps = 1
    /\ 1 \in tick0.absent
    /\ snap[ApiUrlKey].present
    /\ snap[ApiUrlKey].lease # 0
    /\ store[ApiUrlKey].present
    /\ store[ApiUrlKey].val = reg.url
    /\ store[ApiUrlKey].lease > snap[ApiUrlKey].lease


\* ------------------------------------------------ put_or_touch, RPC by RPC
\* C18 (as claimed): the heartbeat put_or_touch issues on lease id 0, the id of
\* a found record with no lease, is a no-op: the call returns success and leaves
\* store and leases as they are.
C18_HeartbeatOnNoLease ==
    [][(/\ op["caller"] = "put_or_touch"
        /\ pc["caller"] = "keepalive"
        /\ prev["caller"] = 0
        /\ pc'["caller"] = "idle")
       => /\ ret'["caller"] = "ok"
          /\ store' = store
          /\ leases' = leases]_vars

\* the caller's call has issued n RPCs
Issued(n) == Len(rpcs) = n

\* C19: put_or_touch issues one lookup; on a hit one heartbeat and nothing else; on
\* a miss one lease_grant (when ttl is not 0) and then one put; it issues no RPC
\* after one that failed, and it returns failure exactly when the last RPC it
\* issued failed, success only after the heartbeat or the put.
C19_FailsWithItsRpc ==
    op["caller"] = "put_or_touch" =>
        /\ Len(rpcs) <= 3
        /\ \A i \in 1..(Len(rpcs) - 1) : rpcs[i].ok
        /\ Len(rpcs) >= 1 => rpcs[1].rpc = "get"
        /\ Len(rpcs) >= 2 =>
             IF rpcs[1].hit
             THEN rpcs[2].rpc = "keepalive" /\ Issued(2)
             ELSE IF arg["caller"].ttl # 0
                  THEN rpcs[2].rpc = "grant"
                  ELSE rpcs[2].rpc = "put" /\ Issued(2)
        /\ Len(rpcs) >= 3 => rpcs[3].rpc = "put"
        /\ pc["caller"] # "idle" => \A i \in 1..Len(rpcs) : rpcs[i].ok
        /\ pc["caller"] = "idle" =>
             /\ Len(rpcs) >= 1
             /\ ret["caller"] \in {"ok", "err"}
             /\ ret["caller"] = "err" <=> ~rpcs[Len(rpcs)].ok
             /\ ret["caller"] = "ok" => rpcs[Len(rpcs)].rpc \in {"keepalive", "put"}

\* C19 witness: a put_or_touch with ttl 1 has returned failure after a lookup
\* that missed, a lease_grant that succeeded and a put that failed.
C19_Witness ==
    /\ op["caller"] = "put_or_touch"
    /\ pc["caller"] = "idle"
    /\ ret["caller"] = "err"
    /\ Issued(3)
    /\ rpcs[1] = [rpc |-> "get", ok |-> TRUE, hit |-> FALSE]
    /\ rpcs[2].rpc = "grant"
    /\ rpcs[2].ok
    /\ rpcs[3].rpc = "put"
    /\ ~rpcs[3].ok
    /\ ~CallKV.present

\* ------------------------------------------------------------------ touch
\* a step of the caller's touch
TouchStep ==
    /\ op["caller"] = "touch"
    /\ pc["caller"] \in {"touch_get", "keepalive"}
    /\ pc'["caller"] # pc["caller"]

\* C20: no step of touch(k) changes the store (keys, values, lease ids).  Its
\* lookup changes no lease; when it finds k under a lease id other than 0 one
\* heartbeat on that id follows, which changes nothing but that lease's remaining
\* life, reset to the lease's ttl when the heartbeat succeeds on a lease the store
\* holds; when k is absent or has lease id 0 no heartbeat follows and touch
\* returns success (or the lookup's failure).
C20_TouchOnlyRenews ==
    [][TouchStep =>
         LET kv == Lookup(store, arg["caller"].key)
             id == prev["caller"]
         IN  /\ store' = store
             /\ pc["caller"] = "touch_get" =>
                  /\ leases' = leases
                  /\ Len(rpcs') = 1
                  /\ rpcs'[1].rpc = "get"
                  /\ IF rpcs'[1].ok
                     THEN IF kv.present /\ kv.lease # 0
                          THEN pc'["caller"] = "keepalive" /\ prev'["caller"] = kv.lease
                          ELSE pc'["caller"] = "idle" /\ ret'["caller"] = "ok"
                     ELSE pc'["caller"] = "idle" /\ ret'["caller"] = "err"
             /\ pc["caller"] = "keepalive" =>
                  /\ id # 0
                  /\ pc'["caller"] = "idle"
                  /\ Len(rpcs') = 2
                  /\ rpcs'[2].rpc = "keepalive"
                  /\ \A l \in LeaseIds \ {id} : leases'[l] = leases[l]
                  /\ leases'[id].live = leases[id].live
                  /\ leases'[id].ttl = leases[id].ttl
                  /\ (ret'["caller"] = "ok" /\ leases[id].live) =>
                        leases'[id].remaining = leases[id].ttl
                  /\ (ret'["caller"] # "ok" \/ ~leases[id].live) => leases' = leases]_vars

\* C20 witness: touch("a") has returned success after one lookup and one
\* heartbeat; "a" is as it was, and its lease, of which a second had run, has
\* its whole life again.
C20_Witness ==
    /\ op["caller"] = "touch"
    /\ pc["caller"] = "idle"
    /\ ret["caller"] = "ok"
    /\ arg["caller"].key = KeyA
    /\ Issued(2)
    /\ rpcs[2] = [rpc |-> "keepalive", ok |-> TRUE, hit |-> FALSE]
    /\ calls = 1
    /\ CallKV = pre
    /\ CallKV = [present |-> TRUE, val |-> ExtVal, lease |-> 1]
    /\ leases[1].live
    /\ leases[1].remaining = InitTtl

====
